---- MODULE Spec2Model ----
(***************************************************************************)
(* A model of ticket-api/app.py: the FastAPI application object with its   *)
(* registered middleware, the API-key dependency, the nine route handlers  *)
(* and the "tickets" table they read and write, plus the module-level      *)
(* rate-limit state (requests_store, RATE_LIMIT, TIME_WINDOW) and the      *)
(* function rate_limit_middleware.                                         *)
(*                                                                         *)
(* Encoding.  Python None / JSON null / SQL NULL is the string Null.  A    *)
(* datetime.date is written as its ISO text (date.isoformat()), so that    *)
(* parsing "01-Jan-2024" gives "2024-01-01" and serialising a date is the  *)
(* text FastAPI's JSON encoder emits.  The 36 columns of a ticket are      *)
(* represented by ticket_code, ticket_number (the two required ones),      *)
(* pax_name and agent_issue_pcc (optional strings, the two that search     *)
(* filters on) and issue_date (the date column with the custom validator). *)
(***************************************************************************)
EXTENDS Integers, Sequences, FiniteSets, TLC

Null == "null"

\* ----------------------------------------------------------------- bounds
\* Longest batch POST /tickets/bulk is given.
MaxBatch == 2
\* How many times the clock advances.
MaxTicks == 2

\* ------------------------------------------------------ program constants
RATE_LIMIT == 100
TIME_WINDOW == 60
\* settings.API_KEY, read from the environment.
API_KEY == "secret"

\* ------------------------------------------------------------ input sets
Clients == {"10.0.0.1", "10.0.0.2"}
\* The X-API-Key header: absent, the secret, or something else.
Keys == {Null, API_KEY, "wrong"}
TicketNumbers == {"", "100", "200"}
\* Whether the database round trip of the request fails (connection lost,
\* pool timeout, any asyncpg error other than a unique violation).
Faults == {"none", "down"}

\* A JSON body offered as a Ticket.
Body(code, number, pax, date) ==
    [ticket_code |-> code, ticket_number |-> number, pax_name |-> pax,
     agent_issue_pcc |-> Null, issue_date |-> date]

\* The bodies sent: for every ticket_number a bare ticket (code "T1", the
\* optional fields absent) and a filled one (code "T2", a passenger and an
\* issue date in the accepted form); a ticket whose issue_date is in ISO
\* form; a body without ticket_number (Null).
Payloads ==
    {Body("T1", n, Null, Null) : n \in TicketNumbers}
    \cup {Body("T2", n, "Jane Doe", "01-Jan-2024") : n \in TicketNumbers}
    \cup {Body("T2", "100", "Jane Doe", "2024-01-01"), Body("T1", Null, Null, Null)}

\* ------------------------------------------------------------ Ticket model
\* strptime(value, "%d-%b-%Y").date(): the date, or "ValueError".
strptime_dmy(value) ==
    IF value = "01-Jan-2024" THEN "2024-01-01" ELSE "ValueError"

\* Ticket.parse_issue_date (mode="before").
parse_issue_date(value) ==
    IF value = Null THEN Null ELSE strptime_dmy(value)

\* Whether pydantic accepts the body as a Ticket: the two required strings
\* are present and the issue_date validator does not raise.
TicketValid(p) ==
    /\ p.ticket_code # Null
    /\ p.ticket_number # Null
    /\ parse_issue_date(p.issue_date) # "ValueError"

\* The Ticket instance built from an accepted body.
Ticket(p) == [p EXCEPT !.issue_date = parse_issue_date(p.issue_date)]

ValidPayloads == {p \in Payloads : TicketValid(p)}

\* Python truthiness of an Optional[str].
Truthy(s) == s # Null /\ s # ""

\* ---------------------------------------------------------- tickets table
\* SELECT * FROM tickets WHERE ticket_number = $1
SelectByNumber(table, n) == SelectSeq(table, LAMBDA r : r.ticket_number = n)

\* The unique constraint on tickets.ticket_number.
UniqueViolation(table, row) == SelectByNumber(table, row.ticket_number) # <<>>

\* INSERT INTO tickets (...) VALUES (...): the table afterwards.
Insert(table, row) == Append(table, row)

\* DELETE FROM tickets WHERE ticket_number = $1
Delete(table, n) == SelectSeq(table, LAMBDA r : r.ticket_number # n)

\* UPDATE tickets SET <every column but ticket_number> WHERE ticket_number = $36
Update(table, n, t) ==
    [i \in 1..Len(table) |->
        IF table[i].ticket_number = n
        THEN [t EXCEPT !.ticket_number = n]
        ELSE table[i]]

\* ----------------------------------------------------------- ORDER BY
\* Position of a value in the column's ascending order (text order for the
\* strings, calendar order for the dates); NULL sorts after every value.
Rank(v) ==
    CASE v = "" -> 0
      [] v = "100" -> 1
      [] v = "200" -> 2
      [] v = "2024-01-01" -> 1
      [] v = "Jane Doe" -> 1
      [] v = "T1" -> 1
      [] v = "T2" -> 2
      [] OTHER -> 9

\* Whether row a comes before row b under ORDER BY col dir (ASC puts NULLs
\* last, DESC first).
Before(a, b, col, dir) ==
    IF dir = "asc" THEN Rank(a[col]) < Rank(b[col]) ELSE Rank(a[col]) > Rank(b[col])

RECURSIVE InsertSorted(_, _, _, _)
InsertSorted(sorted, r, col, dir) ==
    IF sorted = <<>> THEN <<r>>
    ELSE IF Before(r, Head(sorted), col, dir) THEN <<r>> \o sorted
    ELSE <<Head(sorted)>> \o InsertSorted(Tail(sorted), r, col, dir)

\* SELECT * FROM tickets ORDER BY col dir (rows with equal keys keep the
\* table's order).
RECURSIVE OrderBy(_, _, _)
OrderBy(table, col, dir) ==
    IF table = <<>> THEN <<>>
    ELSE InsertSorted(OrderBy(SubSeq(table, 1, Len(table) - 1), col, dir),
                      table[Len(table)], col, dir)

\* ... LIMIT limit OFFSET offset
LimitOffset(rows, limit, offset) ==
    SubSeq(rows, offset + 1, IF offset + limit < Len(rows) THEN offset + limit ELSE Len(rows))

Columns == {"ticket_code", "ticket_number", "pax_name", "agent_issue_pcc", "issue_date"}

\* --------------------------------------------------------------- handlers
\* What a handler leaves behind: the response's status, detail and rows,
\* the table afterwards, and whether a statement reached the database.
Result(status, detail, body, table, sql) ==
    [status |-> status, detail |-> detail, body |-> body, table |-> table, sql |-> sql]

\* GET /health
health_check(table, fault) ==
    IF fault = "down"
    THEN Result(503, "Service Unavailable.", <<>>, table, FALSE)
    ELSE Result(200, "healthy", <<>>, table, TRUE)

\* GET /tickets/stats with both date bounds absent: the rows the aggregates
\* are computed over are given as the body.
get_ticket_stats(table, fault) ==
    IF fault = "down"
    THEN Result(500, "Failed to get statistic", <<>>, table, FALSE)
    ELSE Result(200, "stats", table, table, TRUE)

\* The statement text get_tickets builds:
\*   f"SELECT * FROM tickets ORDER BY {sort_by} {order} LIMIT $1 OFFSET $2"
\* as its parts; the two parameters are put in as they are.
ListStatement(sort_by, order) ==
    [select |-> "SELECT * FROM tickets", order_by |-> sort_by, direction |-> order,
     tail |-> "LIMIT $1 OFFSET $2"]

\* GET /tickets: sort_by and order go into the statement text as given; the
\* database rejects a statement whose ORDER BY names no column or whose
\* direction is no keyword, and a negative LIMIT.
get_tickets(table, page, limit, sort_by, order, fault) ==
    LET offset == (page - 1) * limit
        query == ListStatement(sort_by, order)
    IN
    IF fault = "down" \/ query.order_by \notin Columns
            \/ query.direction \notin {"asc", "desc"} \/ limit < 0
    THEN Result(500, "Internal server error", <<>>, table, fault # "down")
    ELSE Result(200, "list",
                LimitOffset(OrderBy(table, query.order_by, query.direction), limit, offset),
                table, TRUE)

\* create_ticket over a table that accepts a second row with a stored
\* ticket_number.
create_ticket_unconstrained(table, ticket, fault) ==
    IF fault = "down"
    THEN Result(400, "Invalid data provided.", <<>>, table, FALSE)
    ELSE Result(200, "created", <<ticket>>, Insert(table, ticket), TRUE)

\* POST /tickets
create_ticket(table, ticket, fault) ==
    IF fault = "down"
    THEN Result(400, "Invalid data provided.", <<>>, table, FALSE)
    ELSE IF UniqueViolation(table, ticket)
    THEN Result(400, "Invalid data provided.", <<>>, table, TRUE)
    ELSE Result(200, "created", <<ticket>>, Insert(table, ticket), TRUE)

\* The INSERT loop of create_bulk_tickets inside conn.transaction(): it
\* stops with UniqueViolationError at the first row whose ticket_number is
\* taken (by a stored row or by an earlier row of the batch).  error tells
\* whether it did, table is the transaction's view of the table when the
\* loop ends.
RECURSIVE InsertAll(_, _)
InsertAll(table, rows) ==
    IF rows = <<>> THEN [error |-> FALSE, table |-> table]
    ELSE IF UniqueViolation(table, Head(rows)) THEN [error |-> TRUE, table |-> table]
    ELSE InsertAll(Insert(table, Head(rows)), Tail(rows))

\* A transaction that keeps the block's writes however the block ends.
Transaction_no_rollback(before, block) ==
    block.table

\* What conn.transaction() leaves when its block ends: the block's writes
\* on a normal exit (commit), the table as it was on an exception (rollback).
Transaction(before, block) ==
    IF block.error THEN before ELSE block.table

\* POST /tickets/bulk
create_bulk_tickets(table, batch, fault) ==
    IF fault = "down"
    THEN Result(500, "Bulk creation failed.", <<>>, table, FALSE)
    ELSE LET block == InsertAll(table, batch)
             after == Transaction(table, block)
         IN
         IF block.error
         THEN Result(400, "One or more ticket numbers already exist", <<>>, after, TRUE)
         ELSE Result(200, "Created tickets", batch, after, TRUE)

\* PUT /tickets/{ticket_number}: the HTTPException(404) is raised inside the
\* try block, whose "except Exception" turns it into a 500.
update_ticket(table, ticket_number, ticket_update, fault) ==
    IF fault = "down"
    THEN Result(500, "Update failed", <<>>, table, FALSE)
    ELSE IF SelectByNumber(table, ticket_number) = <<>>
    THEN Result(500, "Update failed", <<>>, table, TRUE)
    ELSE LET after == Update(table, ticket_number, ticket_update) IN
         Result(200, "updated", <<Head(SelectByNumber(after, ticket_number))>>, after, TRUE)

\* pax_name ILIKE '%pattern%' over the names of the model.
ILike(value, pattern) ==
    /\ value # Null
    /\ <<value, pattern>> \in {<<"Jane Doe", "jane">>, <<"Jane Doe", "Jane Doe">>}

\* GET /tickets/search; an exception of the database is not caught here and
\* reaches global_exception_handler.
search_tickets(table, ticket_number, pax_name, agent_issue_pcc, fault) ==
    IF ~(Truthy(ticket_number) \/ Truthy(pax_name) \/ Truthy(agent_issue_pcc))
    THEN Result(400, "At least one search parameter is required.", <<>>, table, FALSE)
    ELSE IF fault = "down"
    THEN Result(500, "Internal server error", <<>>, table, FALSE)
    ELSE Result(200, "search",
                SelectSeq(table, LAMBDA r :
                    /\ (Truthy(ticket_number) => r.ticket_number = ticket_number)
                    /\ (Truthy(pax_name) => ILike(r.pax_name, pax_name))
                    /\ (Truthy(agent_issue_pcc) => r.agent_issue_pcc = agent_issue_pcc)),
                table, TRUE)

\* strptime(date, "%Y-%m-%d").date(): the date, or "ValueError".
strptime_iso(value) ==
    IF value = "2024-01-01" THEN "2024-01-01" ELSE "ValueError"

\* GET /tickets/{date}
get_tickets_by_date(table, date, fault) ==
    IF strptime_iso(date) = "ValueError"
    THEN Result(400, "Invalid date format. Use DD-MM-YYYY", <<>>, table, FALSE)
    ELSE IF fault = "down"
    THEN Result(500, "Internal server error.", <<>>, table, FALSE)
    ELSE Result(200, "by date",
                SelectSeq(table, LAMBDA r : r.issue_date = strptime_iso(date)), table, TRUE)

\* delete_ticket without its test of the command tag "DELETE 0".
delete_ticket_unchecked(table, ticket_number, fault) ==
    IF fault = "down"
    THEN Result(500, "Internal server error", <<>>, table, FALSE)
    ELSE Result(200, "Ticket deleted successfully.", <<>>,
                Delete(table, ticket_number), TRUE)

\* DELETE /tickets/{ticket_number}; no try block: an exception of the
\* database reaches global_exception_handler.
delete_ticket(table, ticket_number, fault) ==
    IF fault = "down"
    THEN Result(500, "Internal server error", <<>>, table, FALSE)
    ELSE IF SelectByNumber(table, ticket_number) = <<>>
    THEN Result(404, "Ticket not found", <<>>, table, TRUE)
    ELSE Result(200, "Ticket deleted successfully.", <<>>,
                Delete(table, ticket_number), TRUE)

\* ------------------------------------------------------------- requests
Routes ==
    {"GET /health", "GET /tickets/stats", "GET /tickets", "POST /tickets",
     "POST /tickets/bulk", "PUT /tickets/{ticket_number}", "GET /tickets/search",
     "GET /tickets/{date}", "DELETE /tickets/{ticket_number}"}

\* Query parameters a request does not give.
NoQuery ==
    [ticket_number |-> Null, pax_name |-> Null, agent_issue_pcc |-> Null,
     sort_by |-> "issue_date", order |-> "asc", page |-> 1, limit |-> 10]

\* A request without its sender: route, path parameter, query, JSON body (a
\* sequence of tickets: one for POST /tickets and PUT, the list for bulk).
Call(route, path, query, body) ==
    [route |-> route, path |-> path, query |-> query, body |-> body]

\* ticket_number values that can stand in a path (an empty segment matches
\* no route).
PathNumbers == TicketNumbers \ {""}

\* Tickets offered in a bulk request: two ticket numbers, one of them with
\* two different contents, and a ticket that fails validation.
BatchPayloads ==
    {Body("T1", "", Null, Null), Body("T1", "100", Null, Null),
     Body("T2", "100", "Jane Doe", "01-Jan-2024"),
     Body("T2", "100", "Jane Doe", "2024-01-01")}

RECURSIVE SeqsUpTo(_, _)
SeqsUpTo(S, n) ==
    IF n = 0 THEN {<<>>}
    ELSE LET shorter == SeqsUpTo(S, n - 1) IN
         shorter \cup {Append(q, x) : q \in shorter, x \in S}

Batches == SeqsUpTo(BatchPayloads, MaxBatch)

\* sort_by and order are declared Query(..., enum=[...]), which documents
\* the values and validates nothing: any string arrives.  page must be > 0
\* and limit <= 100.
ListQueries ==
    {[NoQuery EXCEPT !.sort_by = sb] :
        sb \in {"issue_date", "ticket_number", "pax_name", "ticket_code", "no_such_column"}}
    \cup {[NoQuery EXCEPT !.order = o] : o \in {"desc", "sideways"}}
    \cup {[NoQuery EXCEPT !.page = pl[1], !.limit = pl[2]] :
            pl \in {<<2, 1>>, <<0, 10>>, <<1, 101>>}}

SearchQueries ==
    {[NoQuery EXCEPT !.ticket_number = n] : n \in TicketNumbers \cup {Null}}
    \cup {[NoQuery EXCEPT !.pax_name = "jane"],
          [NoQuery EXCEPT !.agent_issue_pcc = "PCC1"],
          [NoQuery EXCEPT !.ticket_number = "100", !.pax_name = "jane"]}

CallsOf(route) ==
    CASE route = "GET /tickets" ->
            {Call(route, Null, q, <<>>) : q \in ListQueries}
      [] route = "POST /tickets" ->
            {Call(route, Null, NoQuery, <<p>>) : p \in Payloads}
      [] route = "POST /tickets/bulk" ->
            {Call(route, Null, NoQuery, b) : b \in Batches}
      [] route = "PUT /tickets/{ticket_number}" ->
            {Call(route, n, NoQuery, <<p>>) : n \in PathNumbers, p \in Payloads}
      [] route = "GET /tickets/search" ->
            {Call(route, Null, q, <<>>) : q \in SearchQueries}
      [] route = "GET /tickets/{date}" ->
            {Call(route, d, NoQuery, <<>>) : d \in {"2024-01-01", "01-Jan-2024"}}
      [] route = "DELETE /tickets/{ticket_number}" ->
            {Call(route, n, NoQuery, <<>>) : n \in PathNumbers}
      [] OTHER -> {Call(route, Null, NoQuery, <<>>)}

\* One call per route that passes validation and reaches the database.
SampleCall(route) ==
    CHOOSE c \in CallsOf(route) :
        /\ \A i \in 1..Len(c.body) : TicketValid(c.body[i])
        /\ route = "POST /tickets/bulk" => Len(c.body) = MaxBatch
        /\ route = "GET /tickets" => c.query = NoQuery
        /\ route = "GET /tickets/search" => Truthy(c.query.ticket_number)
        /\ route = "GET /tickets/{date}" => c.path = "2024-01-01"

FirstClient == CHOOSE c \in Clients : TRUE

Sent(call, client, key, fault) ==
    [client |-> client, key |-> key, fault |-> fault, route |-> call.route,
     path |-> call.path, query |-> call.query, body |-> call.body]

\* The requests of a route: every call of it from one client with the right
\* key and a working database; and the sample call with every key, from
\* every client, and with the database failing.
RequestsOf(route) ==
    {Sent(c, FirstClient, API_KEY, "none") : c \in CallsOf(route)}
    \cup {Sent(SampleCall(route), FirstClient, k, "none") : k \in Keys}
    \cup {Sent(SampleCall(route), cl, API_KEY, "none") : cl \in Clients}
    \cup {Sent(SampleCall(route), FirstClient, API_KEY, f) : f \in Faults}

HealthRequests == RequestsOf("GET /health")
StatsRequests == RequestsOf("GET /tickets/stats")
ListRequests == RequestsOf("GET /tickets")
CreateRequests == RequestsOf("POST /tickets")
BulkRequests == RequestsOf("POST /tickets/bulk")
UpdateRequests == RequestsOf("PUT /tickets/{ticket_number}")
SearchRequests == RequestsOf("GET /tickets/search")
ByDateRequests == RequestsOf("GET /tickets/{date}")
DeleteRequests == RequestsOf("DELETE /tickets/{ticket_number}")

\* -------------------------------------------------------------- pipeline
\* The middleware FastAPI runs, outermost first: add_request_id was
\* registered last and runs first, then log_requests, then CORSMiddleware.
\* rate_limit_middleware carries no @app.middleware decorator (the one
\* above it decorates log_requests) and is not among them.
Middleware == <<"add_request_id", "log_requests", "CORSMiddleware">>

\* Routes declared with dependencies=[Depends(verify_api_key)].
Protected == Routes \ {"GET /health"}

\* The status APIKeyHeader (auto_error) answers a request without the
\* header with, before verify_api_key is called: 403 up to FastAPI 0.121,
\* 401 from 0.122 on.  The source pins no version.
NotAuthenticated == {401, 403}

\* verify_api_key(api_key): the status of the HTTPException it raises, or 0
\* when it returns the key.
verify_api_key(api_key) ==
    IF api_key # API_KEY THEN 401 ELSE 0

\* Whether FastAPI's validation of the parameters and the body passes.
Validates(req) ==
    CASE req.route \in {"POST /tickets", "PUT /tickets/{ticket_number}"} ->
            TicketValid(req.body[1])
      [] req.route = "POST /tickets/bulk" ->
            \A i \in 1..Len(req.body) : TicketValid(req.body[i])
      [] req.route = "GET /tickets" ->
            req.query.page > 0 /\ req.query.limit <= 100
      [] OTHER -> TRUE

\* The route's handler on the validated arguments.
Dispatch(table, req) ==
    CASE req.route = "GET /health" -> health_check(table, req.fault)
      [] req.route = "GET /tickets/stats" -> get_ticket_stats(table, req.fault)
      [] req.route = "GET /tickets" ->
            get_tickets(table, req.query.page, req.query.limit, req.query.sort_by,
                        req.query.order, req.fault)
      [] req.route = "POST /tickets" ->
            create_ticket(table, Ticket(req.body[1]), req.fault)
      [] req.route = "POST /tickets/bulk" ->
            create_bulk_tickets(table, [i \in 1..Len(req.body) |-> Ticket(req.body[i])],
                                req.fault)
      [] req.route = "PUT /tickets/{ticket_number}" ->
            update_ticket(table, req.path, Ticket(req.body[1]), req.fault)
      [] req.route = "GET /tickets/search" ->
            search_tickets(table, req.query.ticket_number, req.query.pax_name,
                           req.query.agent_issue_pcc, req.fault)
      [] req.route = "GET /tickets/{date}" -> get_tickets_by_date(table, req.path, req.fault)
      [] OTHER -> delete_ticket(table, req.path, req.fault)

\* A response, with the stages the request went through, in order, and
\* whether a statement reached the database.
Response(status, detail, body, stages, sql) ==
    [status |-> status, detail |-> detail, body |-> body, stages |-> stages, sql |-> sql]

\* The application on one request: the response and the table afterwards.
\* missing is the status the installed FastAPI gives a request without key.
App(table, req, missing) ==
    LET auth == Middleware \o <<"APIKeyHeader">>
        checked == auth \o <<"verify_api_key">>
    IN
    IF req.route \in Protected /\ req.key = Null
    THEN [response |-> Response(missing, "Not authenticated", <<>>, auth, FALSE),
          table |-> table]
    ELSE IF req.route \in Protected /\ verify_api_key(req.key) # 0
    THEN [response |-> Response(verify_api_key(req.key), "Invalid API key", <<>>,
                                checked, FALSE),
          table |-> table]
    ELSE LET before == IF req.route \in Protected THEN checked ELSE Middleware IN
         IF ~Validates(req)
         THEN [response |-> Response(422, "validation error", <<>>, before, FALSE),
               table |-> table]
         ELSE LET r == Dispatch(table, req) IN
              [response |-> Response(r.status, r.detail, r.body,
                                     before \o <<"handler">>, r.sql),
               table |-> r.table]

VARIABLES
    tickets,         \* the rows of the tickets table, committed
    requests_store,  \* requests_store: client address -> list of timestamps
    now,             \* time.time()
    request,         \* the request handled last
    response,        \* its response
    admitted,        \* per client, the times of requests that reached the router
    txn,             \* the open transaction of a create_bulk_tickets in progress
    upd,             \* an update_ticket in progress, between its two statements
    tasks            \* the request tasks inside rate_limit_middleware

vars == <<tickets, requests_store, now, request, response, admitted, txn, upd, tasks>>

NoRequest == Sent(Call(Null, Null, NoQuery, <<>>), Null, Null, "none")

NoResponse == Response(0, Null, <<>>, <<>>, FALSE)

NoTxn == [open |-> FALSE, req |-> NoRequest, todo |-> <<>>, written |-> <<>>]

NoUpd == [open |-> FALSE, req |-> NoRequest]

\* The request tasks of the event loop that run rate_limit_middleware.
Tasks == {1, 2}

\* A task with no request: pc is the statement it is at, client_ip, now and
\* pruned its locals (pruned is the value of the list comprehension).
NoTask == [pc |-> "idle", client_ip |-> Null, now |-> 0, pruned |-> <<>>]

Init ==
    /\ tickets = <<>>
    /\ requests_store = [c \in Clients |-> <<>>]
    /\ now = 0
    /\ request = NoRequest
    /\ response = NoResponse
    /\ admitted = [c \in Clients |-> <<>>]
    /\ txn = NoTxn
    /\ upd = NoUpd
    /\ tasks = [t \in Tasks |-> NoTask]

\* One HTTP request served from arrival to response.
Serve(req) ==
    \E missing \in (IF req.key = Null /\ req.route \in Protected
                    THEN NotAuthenticated ELSE {401}) :
        LET out == App(tickets, req, missing) IN
        /\ request' = req
        /\ response' = out.response
        /\ tickets' = out.table
        /\ UNCHANGED <<requests_store, tasks, txn, upd>>

Health == \E req \in HealthRequests : Serve(req) /\ UNCHANGED <<now, admitted>>

Stats == \E req \in StatsRequests : Serve(req) /\ UNCHANGED <<now, admitted>>

List == \E req \in ListRequests : Serve(req) /\ UNCHANGED <<now, admitted>>

Create == \E req \in CreateRequests : Serve(req) /\ UNCHANGED <<now, admitted>>

BulkCreate == \E req \in BulkRequests : Serve(req) /\ UNCHANGED <<now, admitted>>

UpdateTicket == \E req \in UpdateRequests : Serve(req) /\ UNCHANGED <<now, admitted>>

Search == \E req \in SearchRequests : Serve(req) /\ UNCHANGED <<now, admitted>>

ByDate == \E req \in ByDateRequests : Serve(req) /\ UNCHANGED <<now, admitted>>

DeleteTicket == \E req \in DeleteRequests : Serve(req) /\ UNCHANGED <<now, admitted>>

Next ==
    \/ Health
    \/ Stats
    \/ List
    \/ Create
    \/ BulkCreate
    \/ UpdateTicket
    \/ Search
    \/ ByDate
    \/ DeleteTicket

Spec == Init /\ [][Next]_vars

\* ----------------------------------------------------------- rate limiter
\* [req_time for req_time in requests_store[client_ip]
\*      if now - req_time < TIME_WINDOW]
Prune(times, t) == SelectSeq(times, LAMBDA req_time : t - req_time < TIME_WINDOW)

\* A limiter that appends now before it tests the length, and so records
\* the time of a request it rejects.
rate_limit_middleware_recording(client_ip) ==
    LET pruned == Prune(requests_store[client_ip], now) IN
    /\ request' = Sent(Call("GET /health", Null, NoQuery, <<>>), client_ip, Null, "none")
    /\ requests_store' = [requests_store EXCEPT ![client_ip] = Append(pruned, now)]
    /\ response' = IF Len(pruned) >= RATE_LIMIT
                   THEN Response(429, "Too many requests", <<>>,
                                 <<"rate_limit_middleware">>, FALSE)
                   ELSE Response(200, "call_next", <<>>,
                                 <<"rate_limit_middleware", "call_next">>, FALSE)
    /\ UNCHANGED <<tickets, tasks, now, admitted, txn, upd>>

\* rate_limit_middleware up to "await call_next": the pruned window is
\* written back, then either the HTTPException(429) is raised or now is
\* appended.  There is no await in between, so the steps are one action of
\* the event loop.  The function is defined in app.py and never registered
\* on the application; this action is the function called on its own.
rate_limit_middleware(client_ip) ==
    LET pruned == Prune(requests_store[client_ip], now) IN
    /\ request' = Sent(Call("GET /health", Null, NoQuery, <<>>), client_ip, Null, "none")
    /\ IF Len(pruned) >= RATE_LIMIT
       THEN /\ requests_store' = [requests_store EXCEPT ![client_ip] = pruned]
            /\ response' = Response(429, "Too many requests", <<>>,
                                    <<"rate_limit_middleware">>, FALSE)
       ELSE /\ requests_store' = [requests_store EXCEPT ![client_ip] = Append(pruned, now)]
            /\ response' = Response(200, "call_next", <<>>,
                                    <<"rate_limit_middleware", "call_next">>, FALSE)
    /\ UNCHANGED <<tickets, tasks, now, admitted, txn, upd>>

\* The clock moves on by half a window.
HalfWindow ==
    /\ now < MaxTicks * TIME_WINDOW
    /\ now' = now + TIME_WINDOW \div 2
    /\ UNCHANGED <<tickets, requests_store, tasks, request, response, admitted, txn, upd>>

Limit == rate_limit_middleware(FirstClient)

NextLimiter ==
    \/ Limit
    \/ HalfWindow

\* rate_limit_middleware called directly, request after request.
SpecLimiter == Init /\ [][NextLimiter]_vars

\* ------------------------------------------------------------ the burst
\* The requests of a burst, all from one client: GET /health with the
\* database up or down, and a DELETE with a wrong key.
BurstRequests ==
    {r \in HealthRequests : r.client = FirstClient /\ r.key = API_KEY}
    \cup {r \in DeleteRequests : r.key = "wrong"}

\* The times in `times` that lie in the closed interval [t - TIME_WINDOW, t].
Trailing(times, t) == SelectSeq(times, LAMBDA x : t - x <= TIME_WINDOW)

\* A request served at time now; the time is noted for its client as that
\* of a request that was let through to the router (every response but a
\* 429).  At most RATE_LIMIT + 1 are noted per trailing window.
Burst ==
    \E req \in BurstRequests :
        /\ Len(admitted[req.client]) <= RATE_LIMIT
        /\ Serve(req)
        /\ admitted' = [admitted EXCEPT ![req.client] =
                            IF response'.status = 429 THEN @ ELSE Append(@, now)]
        /\ UNCHANGED now

\* The clock moves on by a whole window; noted times that left the trailing
\* closed window are dropped.
Wait ==
    /\ now < MaxTicks * TIME_WINDOW
    /\ now' = now + TIME_WINDOW
    /\ admitted' = [c \in Clients |-> Trailing(admitted[c], now')]
    /\ UNCHANGED <<tickets, requests_store, tasks, request, response, txn, upd>>

NextBurst ==
    \/ Burst
    \/ Wait

\* One client sending request after request to the application.
SpecBurst == Init /\ [][NextBurst]_vars

\* --------------------------------------------------- concurrent requests
\* Requests are served by tasks of one event loop; a handler gives way to
\* the others at each await, that is at each statement it sends to the
\* database.  create_ticket and delete_ticket send one statement;
\* update_ticket sends two; create_bulk_tickets sends one per ticket inside
\* a transaction.  Other handlers see the rows of an open transaction only
\* once it has committed, and an INSERT of a ticket_number that an open
\* transaction has written waits for that transaction to end.
ConcRequests ==
    {r \in CreateRequests \cup DeleteRequests \cup BulkRequests \cup UpdateRequests :
        /\ r.client = FirstClient /\ r.key = API_KEY /\ r.fault = "none"
        /\ Validates(r)
        /\ \A i \in 1..Len(r.body) : r.body[i].ticket_number # ""}

Pending == Response(0, Null, <<>>, <<>>, FALSE)

\* POST /tickets among other requests in progress.
ConcCreate ==
    \E req \in ConcRequests :
        /\ req.route = "POST /tickets"
        /\ ~UniqueViolation(txn.written, Ticket(req.body[1]))
        /\ Serve(req)
        /\ UNCHANGED <<now, admitted>>

\* DELETE /tickets/{ticket_number} among other requests in progress.
ConcDelete ==
    \E req \in ConcRequests :
        /\ req.route = "DELETE /tickets/{ticket_number}"
        /\ Serve(req)
        /\ UNCHANGED <<now, admitted>>

\* create_bulk_tickets enters "async with conn.transaction()".
BulkBegin ==
    \E req \in ConcRequests :
        /\ req.route = "POST /tickets/bulk"
        /\ ~txn.open
        /\ txn' = [open |-> TRUE, req |-> req,
                   todo |-> [i \in 1..Len(req.body) |-> Ticket(req.body[i])],
                   written |-> <<>>]
        /\ request' = req
        /\ response' = Pending
        /\ UNCHANGED <<tickets, requests_store, tasks, now, admitted, upd>>

\* One INSERT of the loop: the row is written inside the transaction, or
\* the INSERT raises UniqueViolationError, the transaction rolls back and
\* the request is answered 400.
BulkInsert ==
    /\ txn.open
    /\ txn.todo # <<>>
    /\ request' = txn.req
    /\ IF UniqueViolation(tickets \o txn.written, Head(txn.todo))
       THEN /\ tickets' = Transaction(tickets, [error |-> TRUE,
                                                table |-> tickets \o txn.written])
            /\ txn' = NoTxn
            /\ response' = Response(400, "One or more ticket numbers already exist", <<>>,
                                    Middleware \o <<"APIKeyHeader", "verify_api_key", "handler">>,
                                    TRUE)
       ELSE /\ txn' = [txn EXCEPT !.todo = Tail(@),
                                  !.written = Insert(@, Head(txn.todo))]
            /\ response' = Pending
            /\ UNCHANGED tickets
    /\ UNCHANGED <<requests_store, tasks, now, admitted, upd>>

\* The loop is over: the handler returns and the transaction commits.
BulkCommit ==
    /\ txn.open
    /\ txn.todo = <<>>
    /\ tickets' = Transaction(tickets, [error |-> FALSE, table |-> tickets \o txn.written])
    /\ request' = txn.req
    /\ response' = Response(200, "Created tickets", txn.written,
                            Middleware \o <<"APIKeyHeader", "verify_api_key", "handler">>, TRUE)
    /\ txn' = NoTxn
    /\ UNCHANGED <<requests_store, tasks, now, admitted, upd>>

\* update_ticket's SELECT: no row, and the 404 it raises leaves as a 500;
\* otherwise the handler goes on to its UPDATE.
UpdateSelect ==
    \E req \in ConcRequests :
        /\ req.route = "PUT /tickets/{ticket_number}"
        /\ ~upd.open
        /\ request' = req
        /\ IF SelectByNumber(tickets, req.path) = <<>>
           THEN /\ response' = Response(500, "Update failed", <<>>,
                                        Middleware \o <<"APIKeyHeader", "verify_api_key",
                                                        "handler">>, TRUE)
                /\ UNCHANGED upd
           ELSE /\ response' = Pending
                /\ upd' = [open |-> TRUE, req |-> req]
        /\ UNCHANGED <<tickets, requests_store, tasks, now, admitted, txn>>

\* update_ticket's UPDATE ... RETURNING *: when the row has been deleted in
\* the meantime it returns None, dict(None) raises, and the answer is 500.
UpdateWrite ==
    /\ upd.open
    /\ request' = upd.req
    /\ LET r == update_ticket(tickets, upd.req.path, Ticket(upd.req.body[1]), "none") IN
       /\ tickets' = r.table
       /\ response' = Response(r.status, r.detail, r.body,
                               Middleware \o <<"APIKeyHeader", "verify_api_key", "handler">>,
                               TRUE)
    /\ upd' = NoUpd
    /\ UNCHANGED <<requests_store, tasks, now, admitted, txn>>

NextConc ==
    \/ ConcCreate
    \/ ConcDelete
    \/ BulkBegin
    \/ BulkInsert
    \/ BulkCommit
    \/ UpdateSelect
    \/ UpdateWrite

\* Create, delete, update and bulk-create requests served concurrently.
SpecConc == Init /\ [][NextConc]_vars

\* ------------------------------------- rate_limit_middleware, task by task
\* rate_limit_middleware as the tasks of one event loop run it, statement
\* by statement.  A task keeps the loop from one await to the next: while
\* it is at a statement that is no await, no other task takes a step.

\* An event loop that could also switch tasks between the evaluation of
\* the list comprehension and its assignment.
YieldPointsWithWrite == {"write", "call_next"}

\* The statements at which a task gives way to the others: the function's
\* one await, "response = await call_next(request)".
YieldPoints == {"call_next"}

\* Whether task t may take a step: every other task is suspended at an
\* await or has no request.
HasLoop(t) ==
    \A u \in Tasks \ {t} : tasks[u].pc \in YieldPoints \cup {"idle"}

\* client_ip = request.client.host; now = time.time()
TaskStart(t) ==
    /\ tasks[t].pc = "idle"
    /\ HasLoop(t)
    /\ tasks' = [tasks EXCEPT ![t] = [pc |-> "read", client_ip |-> FirstClient,
                                      now |-> now, pruned |-> <<>>]]
    /\ UNCHANGED <<tickets, requests_store, now, request, response, admitted, txn, upd>>

\* The list comprehension of "clean old requests" is evaluated...
TaskRead(t) ==
    /\ tasks[t].pc = "read"
    /\ HasLoop(t)
    /\ tasks' = [tasks EXCEPT ![t].pc = "write",
                              ![t].pruned = Prune(requests_store[tasks[t].client_ip],
                                                  tasks[t].now)]
    /\ UNCHANGED <<tickets, requests_store, now, request, response, admitted, txn, upd>>

\* ... and assigned to requests_store[client_ip].
TaskWrite(t) ==
    /\ tasks[t].pc = "write"
    /\ HasLoop(t)
    /\ requests_store' = [requests_store EXCEPT ![tasks[t].client_ip] = tasks[t].pruned]
    /\ tasks' = [tasks EXCEPT ![t].pc = "test", ![t].pruned = <<>>]
    /\ UNCHANGED <<tickets, now, request, response, admitted, txn, upd>>

\* if len(requests_store[client_ip]) >= RATE_LIMIT: raise HTTPException(429)
TaskTest(t) ==
    /\ tasks[t].pc = "test"
    /\ HasLoop(t)
    /\ IF Len(requests_store[tasks[t].client_ip]) >= RATE_LIMIT
       THEN /\ tasks' = [tasks EXCEPT ![t] = NoTask]
            /\ request' = Sent(Call("GET /health", Null, NoQuery, <<>>),
                               tasks[t].client_ip, Null, "none")
            /\ response' = Response(429, "Too many requests", <<>>,
                                    <<"rate_limit_middleware">>, FALSE)
       ELSE /\ tasks' = [tasks EXCEPT ![t].pc = "append"]
            /\ UNCHANGED <<request, response>>
    /\ UNCHANGED <<tickets, requests_store, now, admitted, txn, upd>>

\* requests_store[client_ip].append(now); the request is let through, which
\* admitted notes.  The local now is not read again.
TaskAppend(t) ==
    /\ tasks[t].pc = "append"
    /\ HasLoop(t)
    /\ requests_store' = [requests_store EXCEPT ![tasks[t].client_ip] =
                                Append(@, tasks[t].now)]
    /\ admitted' = [admitted EXCEPT ![tasks[t].client_ip] = Append(@, tasks[t].now)]
    /\ tasks' = [tasks EXCEPT ![t].pc = "call_next", ![t].now = 0]
    /\ UNCHANGED <<tickets, now, request, response, txn, upd>>

\* response = await call_next(request) is over; return response
TaskReturn(t) ==
    /\ tasks[t].pc = "call_next"
    /\ HasLoop(t)
    /\ tasks' = [tasks EXCEPT ![t] = NoTask]
    /\ request' = Sent(Call("GET /health", Null, NoQuery, <<>>),
                       tasks[t].client_ip, Null, "none")
    /\ response' = Response(200, "call_next", <<>>,
                            <<"rate_limit_middleware", "call_next">>, FALSE)
    /\ UNCHANGED <<tickets, requests_store, now, admitted, txn, upd>>

\* Half a window passes while every task waits or has no request; noted
\* times that have left the window are dropped.
TaskTick ==
    /\ now < MaxTicks * TIME_WINDOW
    /\ \A t \in Tasks : tasks[t].pc \in YieldPoints \cup {"idle"}
    /\ now' = now + TIME_WINDOW \div 2
    /\ admitted' = [c \in Clients |-> Prune(admitted[c], now')]
    /\ UNCHANGED <<tickets, requests_store, tasks, request, response, txn, upd>>

Arrive == \E t \in Tasks : TaskStart(t)

ReadWindow == \E t \in Tasks : TaskRead(t)

WriteWindow == \E t \in Tasks : TaskWrite(t)

TestCeiling == \E t \in Tasks : TaskTest(t)

AppendNow == \E t \in Tasks : TaskAppend(t)

Return == \E t \in Tasks : TaskReturn(t)

NextTasks ==
    \/ Arrive
    \/ ReadWindow
    \/ WriteWindow
    \/ TestCeiling
    \/ AppendNow
    \/ Return
    \/ TaskTick

\* Concurrent requests of one client going through rate_limit_middleware.
SpecTasks == Init /\ [][NextTasks]_vars

\* ======================================================================
\* Properties
\* ======================================================================

\* Whether the request handled last passed authentication and validation
\* on `route` while the database answered.
Handled(req, route) ==
    /\ req.route = route
    /\ req.key = API_KEY
    /\ req.fault = "none"
    /\ Validates(req)

Stage(name) == \E i \in 1..Len(response.stages) : response.stages[i] = name

\* C1: with ceiling RATE_LIMIT per TIME_WINDOW, a client's requests are let
\* through until RATE_LIMIT of them lie within the window, the next one
\* within the window is answered 429, and a 429 is given only then (so a
\* request made once the window has passed is let through again).
C1_CeilingPerWindow ==
    \A c \in Clients :
        /\ Len(Prune(admitted[c], now)) <= RATE_LIMIT
        /\ (request.client = c /\ response.status = 429)
                => Len(Prune(admitted[c], now)) >= RATE_LIMIT

\* C2: for every client, the requests let through whose times lie in the
\* trailing closed interval [now - TIME_WINDOW, now] never number more
\* than RATE_LIMIT.
C2_TrailingIntervalWithinCeiling ==
    \A c \in Clients : Len(Trailing(admitted[c], now)) <= RATE_LIMIT

\* C3: every request, on every route, goes through the rate limiter before
\* the API key is looked at and before the handler; a request answered 429
\* had neither its key checked nor its handler run nor a statement sent.
C3_RateLimitBeforeAuthAndHandler ==
    request.route # Null =>
        /\ \E i \in 1..Len(response.stages) :
              /\ response.stages[i] = "rate_limit_middleware"
              /\ \A j \in 1..i :
                    response.stages[j] \notin {"APIKeyHeader", "verify_api_key", "handler"}
        /\ response.status = 429 =>
              ~Stage("verify_api_key") /\ ~Stage("handler") /\ ~response.sql

\* C4: on every route but GET /health a request whose X-API-Key
\* is absent or wrong is answered 401 and no handler runs; GET /health is
\* served whatever the key.
C4_AbsentOrWrongKeyIs401 ==
    /\ (request.route \in Protected /\ request.key # API_KEY)
            => response.status = 401 /\ ~Stage("handler") /\ ~response.sql
    /\ request.route = "GET /health" => Stage("handler")

\* What holds of the key check: on every route but GET /health a request
\* with a wrong X-API-Key is answered 401 and one without the header 401 or
\* 403 (by APIKeyHeader, before verify_api_key is called); in both cases no
\* handler runs, no statement is sent and the table is unchanged.  GET
\* /health is served whatever the key.
BadKeyRejectedBeforeHandler ==
    [][ /\ (request'.route \in Protected /\ request'.key # API_KEY) =>
              /\ response'.status \in (IF request'.key = Null THEN {401, 403} ELSE {401})
              /\ \A i \in 1..Len(response'.stages) : response'.stages[i] # "handler"
              /\ ~response'.sql
              /\ tickets' = tickets
        /\ request'.route = "GET /health" =>
              /\ \E i \in 1..Len(response'.stages) : response'.stages[i] = "handler"
              /\ response'.status \in {200, 503}
      ]_vars

\* A DELETE with a wrong key was answered 401 while the table held rows.
BadKeyRejected ==
    /\ request.route = "DELETE /tickets/{ticket_number}"
    /\ request.key = "wrong"
    /\ response.status = 401
    /\ SelectByNumber(tickets, request.path) # <<>>

\* C5: a PUT for a ticket_number that is not stored is answered 404 and
\* leaves the table as it was; a PUT for a stored one overwrites every
\* column but ticket_number with the body's value and returns the row.
C5_UpdateMissingIs404 ==
    [][ Handled(request', "PUT /tickets/{ticket_number}") =>
            IF SelectByNumber(tickets, request'.path) = <<>>
            THEN response'.status = 404 /\ tickets' = tickets
            ELSE /\ response'.status = 200
                 /\ response'.body =
                        <<[Ticket(request'.body[1]) EXCEPT !.ticket_number = request'.path]>>
                 /\ SelectByNumber(tickets', request'.path) = response'.body
      ]_vars

\* C6: while the database answers, a DELETE for a ticket_number that is not
\* stored is answered 404 and the table is the same after as before.
C6_DeleteMissingIs404 ==
    [][ (/\ Handled(request', "DELETE /tickets/{ticket_number}")
         /\ SelectByNumber(tickets, request'.path) = <<>>)
            => response'.status = 404 /\ tickets' = tickets
      ]_vars

\* A DELETE for a number that is not stored was answered 404 with other
\* rows in the table.
C6_Witness ==
    /\ Handled(request, "DELETE /tickets/{ticket_number}")
    /\ response.status = 404
    /\ tickets # <<>>
    /\ SelectByNumber(tickets, request.path) = <<>>

\* At most one row per ticket_number.
UniqueNumbers(table) ==
    \A i, j \in 1..Len(table) : table[i].ticket_number = table[j].ticket_number => i = j

\* C7: whatever create, bulk-create, update and delete requests are served,
\* one after another or concurrently, the table holds at most one row per
\* ticket_number; a create whose ticket_number is stored is answered with a
\* 4xx status and leaves the table as it was.
C7_OneRowPerTicketNumber ==
    /\ [](UniqueNumbers(tickets))
    /\ [][ (/\ Handled(request', "POST /tickets")
            /\ response'.status # 0
            /\ SelectByNumber(tickets, request'.body[1].ticket_number) # <<>>)
                => response'.status \in 400..499 /\ tickets' = tickets
         ]_vars

\* A create of a stored ticket_number was refused with 400 while an update
\* was in progress and the table held two rows.
C7_Witness ==
    /\ Handled(request, "POST /tickets")
    /\ response.status = 400
    /\ Len(tickets) >= 2
    /\ SelectByNumber(tickets, request.body[1].ticket_number) # <<>>
    /\ upd.open

\* Whether a batch cannot be inserted whole: one of its ticket numbers is
\* stored already, or two of its rows carry the same one.
Conflicts(table, rows) ==
    \/ \E i \in 1..Len(rows) : \E j \in 1..Len(table) :
            table[j].ticket_number = rows[i].ticket_number
    \/ \E i, j \in 1..Len(rows) : i < j /\ rows[i].ticket_number = rows[j].ticket_number

\* C8: while the database answers, POST /tickets/bulk is all-or-nothing: if
\* a ticket of the batch has the ticket_number of a stored row or of
\* another ticket of the batch, the answer is 400 and the table is as it
\* was before the request; otherwise the answer is 200 and every ticket of
\* the batch has been added.  Never is only a part of a batch in the table
\* when the request has completed.
C8_BulkAllOrNothing ==
    [][ Handled(request', "POST /tickets/bulk") =>
            LET rows == [i \in 1..Len(request'.body) |-> Ticket(request'.body[i])] IN
            IF Conflicts(tickets, rows)
            THEN response'.status = 400 /\ tickets' = tickets
            ELSE response'.status = 200 /\ tickets' = tickets \o rows
      ]_vars

\* A batch whose first ticket was free and whose second was taken was
\* answered 400, and the first is not in the table.
C8_Witness ==
    /\ Handled(request, "POST /tickets/bulk")
    /\ Len(request.body) >= 2
    /\ request.body[1].ticket_number # request.body[2].ticket_number
    /\ response.status = 400
    /\ SelectByNumber(tickets, request.body[1].ticket_number) = <<>>
    /\ SelectByNumber(tickets, request.body[2].ticket_number) # <<>>

\* The answer GET /tickets/search?ticket_number=n would get now.
SearchNow(n) == search_tickets(tickets, n, Null, Null, "none")

\* A POST /tickets that has just stored its ticket, whose ticket_number is
\* not empty.
JustCreated ==
    /\ Handled(request, "POST /tickets")
    /\ response.status \in 200..299
    /\ request.body[1].ticket_number # ""

\* C9: after a create of a valid ticket with a new ticket_number,
\* a search on that ticket_number returns a non-empty list whose record
\* has that ticket_number and equals the ticket that was sent, field by
\* field.
C9_RoundTripEqualsInput ==
    JustCreated =>
        LET found == SearchNow(request.body[1].ticket_number) IN
        /\ found.status = 200
        /\ found.body # <<>>
        /\ found.body[1].ticket_number = request.body[1].ticket_number
        /\ found.body[1] = request.body[1]

\* What holds of the round trip: after a create of a valid ticket with a
\* new, non-empty ticket_number, a search on that ticket_number returns exactly one
\* record; it has that ticket_number and equals the ticket that was sent
\* in every field but issue_date, which comes back as the ISO form
\* (YYYY-MM-DD) of the date that was sent as DD-Mon-YYYY.
RoundTripUpToDateForm ==
    JustCreated =>
        LET found == SearchNow(request.body[1].ticket_number) IN
        /\ found.status = 200
        /\ Len(found.body) = 1
        /\ found.body[1].ticket_number = request.body[1].ticket_number
        /\ found.body[1] =
              [request.body[1] EXCEPT
                    !.issue_date = IF @ = "01-Jan-2024" THEN "2024-01-01" ELSE @]

\* A ticket sent with an issue date was created beside another row, and
\* the search returns it with the date in ISO form.
RoundTripWithDate ==
    /\ JustCreated
    /\ request.body[1].issue_date = "01-Jan-2024"
    /\ Len(tickets) >= 2
    /\ SearchNow(request.body[1].ticket_number).body[1].issue_date = "2024-01-01"

\* C10: a successful POST /tickets is answered 201 with a body whose
\* ticket_code and ticket_number are those of the ticket that was sent.
C10_CreateAnswers201 ==
    (/\ Handled(request, "POST /tickets")
     /\ SelectByNumber(tickets, request.body[1].ticket_number)
            = <<Ticket(request.body[1])>>
     /\ Stage("handler")
     /\ response.status \in 200..299)
        => /\ response.status = 201
           /\ response.body[1].ticket_code = request.body[1].ticket_code
           /\ response.body[1].ticket_number = request.body[1].ticket_number

\* C11: a DELETE for a ticket_number that is stored removes the row and is
\* answered 204 with no body content.
C11_DeleteStoredAnswers204 ==
    [][ (/\ Handled(request', "DELETE /tickets/{ticket_number}")
         /\ SelectByNumber(tickets, request'.path) # <<>>)
            => /\ tickets' = Delete(tickets, request'.path)
               /\ SelectByNumber(tickets', request'.path) = <<>>
               /\ response'.status = 204
               /\ response'.body = <<>>
               /\ response'.detail = Null
      ]_vars

\* What holds of such a DELETE: the row is removed, the other rows stay,
\* and the answer is 200 with the message "Ticket deleted successfully.".
DeleteStoredAnswers200 ==
    [][ (/\ Handled(request', "DELETE /tickets/{ticket_number}")
         /\ SelectByNumber(tickets, request'.path) # <<>>)
            => /\ tickets' = SelectSeq(tickets, LAMBDA r : r.ticket_number # request'.path)
               /\ response'.status = 200
               /\ response'.detail = "Ticket deleted successfully."
      ]_vars

\* The values the declaration of GET /tickets lists for sort_by and order.
SortByEnum == {"issue_date", "ticket_number", "pax_name"}

OrderEnum == {"asc", "desc"}

\* C12: whatever sort_by and order the caller of GET /tickets gives, the
\* sort key and the direction of a statement that reaches the database are
\* among the listed values; a value outside them never gets into the
\* statement text.
C12_SortClauseFromAllowList ==
    (/\ request.route = "GET /tickets"
     /\ Stage("handler")
     /\ response.sql)
        => LET query == ListStatement(request.query.sort_by, request.query.order) IN
           /\ query.order_by \in SortByEnum
           /\ query.direction \in OrderEnum

\* What holds of the sort clause: a request whose sort_by and order are
\* among the listed values is answered 200 while the database answers.
ListedSortClauseServed ==
    (/\ Handled(request, "GET /tickets")
     /\ request.query.sort_by \in SortByEnum
     /\ request.query.order \in OrderEnum
     /\ request.query.limit >= 0)
        => response.status = 200

\* A request with the right key and valid arguments whose handler turned to
\* the database and found it failing.
StoreFailed ==
    /\ request.route \in Protected
    /\ request.key = API_KEY
    /\ Validates(request)
    /\ request.fault = "down"
    /\ Stage("handler")

\* C13: on every route that asks for the key, a request during which the
\* database is unavailable or raises is answered 500 with a message that
\* is not the text of the underlying error.
C13_StoreFaultIs500 ==
    StoreFailed => response.status = 500 /\ response.detail # request.fault

\* What holds of a failing database: every route that asks for the key but
\* POST /tickets answers 500, POST /tickets answers 400 "Invalid data
\* provided.", no answer carries the text of the error, and the table is
\* left as it was.
StoreFaultIs500ButCreate ==
    [][ (/\ request'.route \in Protected
         /\ request'.key = API_KEY
         /\ Validates(request')
         /\ request'.fault = "down")
            => /\ response'.status = (IF request'.route = "POST /tickets" THEN 400 ELSE 500)
               /\ response'.detail # request'.fault
               /\ tickets' = tickets
      ]_vars

\* C14: under every interleaving of the request tasks of one client, the
\* prune, count, decide, append sequence of rate_limit_middleware acts as
\* one step: the requests let through within the window never exceed
\* RATE_LIMIT, none is let through when the pruned window already holds
\* RATE_LIMIT times, and every time appended and not yet expired is still
\* in the window (no task's pruning write drops another task's append).
C14_LimiterSequenceAtomic ==
    /\ [](\A c \in Clients :
            /\ Len(Prune(admitted[c], now)) <= RATE_LIMIT
            /\ Prune(requests_store[c], now) = Prune(admitted[c], now))
    /\ [][ \A c \in Clients :
              Len(admitted'[c]) > Len(admitted[c])
                  => Len(Prune(requests_store[c], now)) < RATE_LIMIT
         ]_vars

\* A request was answered 429 while another task of the same client was
\* waiting in call_next and the window held RATE_LIMIT times.
C14_Witness ==
    /\ response.status = 429
    /\ \E t \in Tasks : tasks[t].pc = "call_next" /\ tasks[t].client_ip = request.client
    /\ Len(requests_store[request.client]) = RATE_LIMIT

\* How many times t occurs in a window.
Occurrences(times, t) == Len(SelectSeq(times, LAMBDA x : x = t))

\* C15: a request that rate_limit_middleware rejects at time now does not
\* record now: afterwards the client's window is exactly the times it held
\* before that are not older than TIME_WINDOW, it holds at most RATE_LIMIT
\* times and none older than TIME_WINDOW; and the time of a request is
\* appended only when the request is let through.
C15_RejectionRecordsNothing ==
    [][ \A c \in Clients :
          /\ (request'.client = c /\ response'.status = 429 /\ now' = now) =>
                /\ requests_store'[c] = Trailing(requests_store[c], now)
                /\ Len(requests_store'[c]) <= RATE_LIMIT
                /\ \A i \in 1..Len(requests_store'[c]) :
                        now - requests_store'[c][i] <= TIME_WINDOW
          /\ Occurrences(requests_store'[c], now) > Occurrences(requests_store[c], now) =>
                /\ request'.client = c
                /\ response'.status # 429
      ]_vars

\* A request was rejected at a time later than 0 while the window held
\* RATE_LIMIT times, some of them of an earlier time.
C15_Witness ==
    /\ response.status = 429
    /\ now > 0
    /\ Len(requests_store[request.client]) = RATE_LIMIT
    /\ \E i \in 1..Len(requests_store[request.client]) :
            requests_store[request.client][i] < now

====
